---------------------------- MODULE Spec2Model ----------------------------
(***************************************************************************)
(* Build Hotspot Analyzer, pure-Python pipeline (src/python/bha).          *)
(*                                                                         *)
(* The model covers bha.types (Duration, CompilationUnit.from_json,        *)
(* AnalysisResult.from_compilation_units) and bha.Analyzer (add_trace_file,*)
(* add_trace_content, analyze, get_suggestions, export) as they run when   *)
(* the native extension is not importable (_HAS_NATIVE = False).           *)
(*                                                                         *)
(* Time.  A trace event carries "dur" in microseconds.  An integer dur d   *)
(* becomes Duration(int(d * 1000)), i.e. exactly 1000 * d nanoseconds.     *)
(* TLC integers are 32 bits wide and 5000 ms is 5 * 10^9 ns, so a Duration *)
(* is carried here as its number of MICROSECONDS (ns = 1000 * us, exact    *)
(* for the integer durs the model feeds).  Every float the code derives    *)
(* from a Duration (x.milliseconds = ns / 1e6) is modelled as the          *)
(* correctly rounded IEEE-754 double of us / 1000, bit for bit.            *)
(***************************************************************************)
EXTENDS Integers, Sequences, FiniteSets, TLC

(***************************************************************************)
(* IEEE-754 binary64 arithmetic (round to nearest, ties to even), for the  *)
(* float fields compile_time_ms, include_times and estimated_impact_ms.    *)
(*                                                                         *)
(* A natural number of any size is a sequence of 15-bit limbs, least       *)
(* significant first, without high zero limbs (<<>> is 0).  A double is    *)
(* [s, e, m]: sign s (0 or 1) and either zero (m = <<>>) or a significand  *)
(* m of exactly 53 bits, with value (-1)^s * m * 2^e.  The exponent range  *)
(* of a double is never reached by the magnitudes of the model.            *)
(***************************************************************************)
LimbBits == 15
Base == 32768
MantBits == 53

FZero == [s |-> 0, e |-> 0, m |-> <<>>]

Limb(x, i) == IF i <= Len(x) THEN x[i] ELSE 0

RECURSIVE Norm(_)
Norm(x) ==
    IF x = <<>> THEN <<>>
    ELSE IF x[Len(x)] = 0 THEN Norm(SubSeq(x, 1, Len(x) - 1))
    ELSE x

RECURSIVE BigOfInt(_)
BigOfInt(a) == IF a = 0 THEN <<>> ELSE <<a % Base>> \o BigOfInt(a \div Base)

RECURSIVE BigAddFrom(_, _, _, _)
BigAddFrom(x, y, i, carry) ==
    IF i > Len(x) /\ i > Len(y)
    THEN (IF carry = 0 THEN <<>> ELSE <<carry>>)
    ELSE LET t == Limb(x, i) + Limb(y, i) + carry
         IN  <<t % Base>> \o BigAddFrom(x, y, i + 1, t \div Base)

BigAdd(x, y) == BigAddFrom(x, y, 1, 0)

RECURSIVE BigSubFrom(_, _, _, _)
BigSubFrom(x, y, i, borrow) ==
    IF i > Len(x) THEN <<>>
    ELSE LET t == x[i] - Limb(y, i) - borrow
         IN  <<IF t < 0 THEN t + Base ELSE t>>
                 \o BigSubFrom(x, y, i + 1, IF t < 0 THEN 1 ELSE 0)

\* x - y, for x >= y
BigSub(x, y) == Norm(BigSubFrom(x, y, 1, 0))

RECURSIVE BigLessFrom(_, _, _)
BigLessFrom(x, y, i) ==
    IF i = 0 THEN FALSE
    ELSE IF x[i] # y[i] THEN x[i] < y[i]
    ELSE BigLessFrom(x, y, i - 1)

BigLess(x, y) ==
    IF Len(x) # Len(y) THEN Len(x) < Len(y) ELSE BigLessFrom(x, y, Len(x))

RECURSIVE MulSmallFrom(_, _, _, _)
MulSmallFrom(x, k, i, carry) ==
    IF i > Len(x) THEN (IF carry = 0 THEN <<>> ELSE <<carry>>)
    ELSE LET t == x[i] * k + carry
         IN  <<t % Base>> \o MulSmallFrom(x, k, i + 1, t \div Base)

\* x * k, for 0 <= k < Base
MulSmall(x, k) == IF k = 0 THEN <<>> ELSE MulSmallFrom(x, k, 1, 0)

RECURSIVE BigMulFrom(_, _, _)
BigMulFrom(x, y, i) ==
    IF i > Len(y) THEN <<>>
    ELSE BigAdd(MulSmall(x, y[i]), <<0>> \o BigMulFrom(x, y, i + 1))

BigMul(x, y) == Norm(BigMulFrom(x, y, 1))

RECURSIVE DivSmallFrom(_, _, _, _)
DivSmallFrom(x, d, i, rem) ==
    IF i > Len(x) THEN <<<<>>, rem>>
    ELSE LET j     == Len(x) + 1 - i
             cur   == rem * Base + x[j]
             lower == DivSmallFrom(x, d, i + 1, cur % d)
         IN  <<Append(lower[1], cur \div d), lower[2]>>

\* <<x \div d, x % d>>, for 0 < d <= Base
DivSmall(x, d) ==
    LET r == DivSmallFrom(x, d, 1, 0) IN <<Norm(r[1]), r[2]>>

ZeroLimbs(n) == [i \in 1..n |-> 0]

\* x * 2^n
ShiftLeft(x, n) ==
    IF x = <<>> THEN <<>>
    ELSE ZeroLimbs(n \div LimbBits) \o MulSmall(x, 2 ^ (n % LimbBits))

\* <<x \div 2^n, whether a one bit was shifted out>>
ShiftRight(x, n) ==
    LET q    == n \div LimbBits
        kept == IF q >= Len(x) THEN <<>> ELSE SubSeq(x, q + 1, Len(x))
        lost == \E i \in 1..q : Limb(x, i) # 0
        dv   == DivSmall(kept, 2 ^ (n % LimbBits))
    IN  <<dv[1], lost \/ dv[2] # 0>>

\* the number of binary digits of x
BitLen(x) ==
    IF x = <<>> THEN 0
    ELSE LimbBits * (Len(x) - 1)
           + (CHOOSE k \in 1..LimbBits :
                 2 ^ (k - 1) <= x[Len(x)] /\ x[Len(x)] < 2 ^ k)

IsOdd(x) == x # <<>> /\ x[1] % 2 = 1

\* the double nearest to (-1)^s * x * 2^e (x a little larger, if sticky)
RoundBig(s, e, x, sticky) ==
    LET n == BitLen(x)
    IN  IF n = 0 THEN FZero
        ELSE IF n <= MantBits
        THEN [s |-> s, e |-> e - (MantBits - n), m |-> ShiftLeft(x, MantBits - n)]
        ELSE LET sh  == ShiftRight(x, n - MantBits - 1)
                 top == DivSmall(sh[1], 2)[1]
                 up  == IsOdd(sh[1]) /\ (sticky \/ sh[2] \/ IsOdd(top))
                 r   == IF up THEN BigAdd(top, <<1>>) ELSE top
                 e2  == e + (n - MantBits)
             IN  IF BitLen(r) > MantBits
                 THEN [s |-> s, e |-> e2 + 1, m |-> DivSmall(r, 2)[1]]
                 ELSE [s |-> s, e |-> e2, m |-> r]

DivShift == 80

\* float(n) / float(d) for integers |n| < 2^31 and 0 < d <= Base:
\* the correctly rounded quotient
FloatDiv(n, d) ==
    LET a  == IF n < 0 THEN 0 - n ELSE n
        dv == DivSmall(ShiftLeft(BigOfInt(a), DivShift), d)
    IN  RoundBig(IF n < 0 THEN 1 ELSE 0, 0 - DivShift, dv[1], dv[2] # 0)

\* float(n) for an integer n
FloatOfInt(n) == FloatDiv(n, 1)

\* |a| < |b|
MagLess(a, b) ==
    IF b.m = <<>> THEN FALSE
    ELSE IF a.m = <<>> THEN TRUE
    ELSE IF a.e # b.e THEN a.e < b.e
    ELSE BigLess(a.m, b.m)

\* a < b
FloatLess(a, b) ==
    IF a.s = 0 /\ b.s = 0 THEN MagLess(a, b)
    ELSE IF a.s = 1 /\ b.s = 1 THEN MagLess(b, a)
    ELSE a.s = 1 /\ (a.m # <<>> \/ b.m # <<>>)

\* a + b, correctly rounded
FloatAdd(a, b) ==
    IF a.m = <<>> THEN (IF b.m = <<>> THEN FZero ELSE b)
    ELSE IF b.m = <<>> THEN a
    ELSE LET e  == IF a.e < b.e THEN a.e ELSE b.e
             xa == ShiftLeft(a.m, a.e - e)
             xb == ShiftLeft(b.m, b.e - e)
         IN  IF a.s = b.s THEN RoundBig(a.s, e, BigAdd(xa, xb), FALSE)
             ELSE IF BigLess(xa, xb)
             THEN RoundBig(b.s, e, BigSub(xb, xa), FALSE)
             ELSE RoundBig(a.s, e, BigSub(xa, xb), FALSE)

\* a * b, correctly rounded
FloatMul(a, b) ==
    IF a.m = <<>> \/ b.m = <<>> THEN FZero
    ELSE RoundBig((a.s + b.s) % 2, a.e + b.e, BigMul(a.m, b.m), FALSE)

\* the double literal 0.3: 5404319552844595 * 2^-54
Float03 == [s |-> 0, e |-> -54, m |-> <<13107, 26214, 19660, 153>>]

(***************************************************************************)
(* bha.types                                                               *)
(***************************************************************************)

\* Python's None, and a present value, as a sequence of at most one element
None == <<>>
Some(v) == <<v>>

\* Duration.from_microseconds(us) = Duration(int(us * 1000)): for an integer
\* us that is 1000 * us nanoseconds, carried here as us microseconds
from_microseconds(us) == us

\* Duration.__add__
DurationAdd(a, b) == a + b

\* Duration.__sub__ = Duration(self._ns - other._ns); Duration.__init__
\* stores the number it is given
DurationSub(a, b) == a - b

\* Duration(): zero nanoseconds
Duration == 0

\* Duration.milliseconds = self._ns / 1_000_000.0, a float
milliseconds(d) == FloatDiv(d, 1000)

\* CompilationUnit(source_file = source_hint) with the dataclass defaults
NewUnit(source_hint) ==
    [source_file   |-> source_hint,
     total_time    |-> 0,
     frontend_time |-> 0,
     backend_time  |-> 0,
     includes      |-> <<>>,
     templates     |-> <<>>]

\* the loop body with the three totals accumulated (+=) instead of assigned
ApplyEventAccumulating(unit, event) ==
    LET name == event.name
        dur  == event.dur
    IN  IF name = "Total ExecuteCompiler"
        THEN [unit EXCEPT !.total_time = @ + dur]
        ELSE IF name = "Total Frontend"
        THEN [unit EXCEPT !.frontend_time = @ + dur]
        ELSE IF name = "Total Backend"
        THEN [unit EXCEPT !.backend_time = @ + dur]
        ELSE IF name = "Source" /\ event.detail # <<>>
        THEN [unit EXCEPT !.includes = Append(@,
                 [header_path |-> event.detail[1], include_time |-> dur])]
        ELSE IF name = "InstantiateClass" \/ name = "InstantiateFunction"
        THEN [unit EXCEPT !.templates = Append(@,
                 [template_name      |-> IF event.detail # <<>>
                                         THEN event.detail[1] ELSE "",
                  instantiation_time |-> dur])]
        ELSE unit

\* the loop body with a Source event that has no args.detail kept, under
\* the header path "" (args.get('detail', '') as for templates)
ApplyEventKeepingSource(unit, event) ==
    LET name == event.name
        dur  == event.dur
        text == IF event.detail # <<>> THEN event.detail[1] ELSE ""
    IN  IF name = "Total ExecuteCompiler"
        THEN [unit EXCEPT !.total_time = dur]
        ELSE IF name = "Total Frontend"
        THEN [unit EXCEPT !.frontend_time = dur]
        ELSE IF name = "Total Backend"
        THEN [unit EXCEPT !.backend_time = dur]
        ELSE IF name = "Source"
        THEN [unit EXCEPT !.includes = Append(@,
                 [header_path |-> text, include_time |-> dur])]
        ELSE IF name = "InstantiateClass" \/ name = "InstantiateFunction"
        THEN [unit EXCEPT !.templates = Append(@,
                 [template_name |-> text, instantiation_time |-> dur])]
        ELSE unit

\* the body of the loop of CompilationUnit.from_json for one event; an event
\* is [name, dur, detail], detail = None when args or args.detail is absent
\* the loop body with a template event without args.detail dropped, as a
\* Source event without args.detail is
ApplyEventDroppingTemplate(unit, event) ==
    LET name == event.name
        dur  == event.dur
    IN  IF name = "Total ExecuteCompiler"
        THEN [unit EXCEPT !.total_time = from_microseconds(dur)]
        ELSE IF name = "Total Frontend"
        THEN [unit EXCEPT !.frontend_time = from_microseconds(dur)]
        ELSE IF name = "Total Backend"
        THEN [unit EXCEPT !.backend_time = from_microseconds(dur)]
        ELSE IF name = "Source"
        THEN IF event.detail # None
             THEN [unit EXCEPT !.includes = Append(@,
                      [header_path  |-> event.detail[1],
                       include_time |-> from_microseconds(dur)])]
             ELSE unit
        ELSE IF name = "InstantiateClass" \/ name = "InstantiateFunction"
        THEN IF event.detail # None
             THEN [unit EXCEPT !.templates = Append(@,
                      [template_name      |-> event.detail[1],
                       instantiation_time |-> from_microseconds(dur)])]
             ELSE unit
        ELSE unit

\* the loop body with a Source event merged into an earlier include of
\* the same header_path (times added) instead of appended
ApplyEventMerging(unit, event) ==
    LET name == event.name
        dur  == event.dur
        Same(k) == unit.includes[k].header_path = event.detail[1]
    IN  IF name = "Total ExecuteCompiler"
        THEN [unit EXCEPT !.total_time = from_microseconds(dur)]
        ELSE IF name = "Total Frontend"
        THEN [unit EXCEPT !.frontend_time = from_microseconds(dur)]
        ELSE IF name = "Total Backend"
        THEN [unit EXCEPT !.backend_time = from_microseconds(dur)]
        ELSE IF name = "Source"
        THEN IF event.detail # None
             THEN IF \E k \in 1..Len(unit.includes) : Same(k)
                  THEN LET k == CHOOSE k \in 1..Len(unit.includes) : Same(k)
                       IN  [unit EXCEPT !.includes[k].include_time =
                                            @ + from_microseconds(dur)]
                  ELSE [unit EXCEPT !.includes = Append(@,
                           [header_path  |-> event.detail[1],
                            include_time |-> from_microseconds(dur)])]
             ELSE unit
        ELSE IF name = "InstantiateClass" \/ name = "InstantiateFunction"
        THEN [unit EXCEPT !.templates = Append(@,
                 [template_name      |-> IF event.detail # None
                                         THEN event.detail[1] ELSE "",
                  instantiation_time |-> from_microseconds(dur)])]
        ELSE unit

ApplyEvent(unit, event) ==
    LET name == event.name
        dur  == event.dur
    IN  IF name = "Total ExecuteCompiler"
        THEN [unit EXCEPT !.total_time = from_microseconds(dur)]
        ELSE IF name = "Total Frontend"
        THEN [unit EXCEPT !.frontend_time = from_microseconds(dur)]
        ELSE IF name = "Total Backend"
        THEN [unit EXCEPT !.backend_time = from_microseconds(dur)]
        ELSE IF name = "Source"
        THEN IF event.detail # None
             THEN [unit EXCEPT !.includes = Append(@,
                      [header_path  |-> event.detail[1],
                       include_time |-> from_microseconds(dur)])]
             ELSE unit
        ELSE IF name = "InstantiateClass" \/ name = "InstantiateFunction"
        THEN [unit EXCEPT !.templates = Append(@,
                 [template_name      |-> IF event.detail # None
                                         THEN event.detail[1] ELSE "",
                  instantiation_time |-> from_microseconds(dur)])]
        ELSE unit

RECURSIVE ApplyEvents(_, _, _)
\* the unit after "for event in trace_events" has run over events[1..i]
ApplyEvents(unit, events, i) ==
    IF i = 0 THEN unit
    ELSE ApplyEvent(ApplyEvents(unit, events, i - 1), events[i])

\* CompilationUnit.from_json(data, source_hint), data a parsed JSON object
from_json(data, source_hint) ==
    ApplyEvents(NewUnit(source_hint), data.events, Len(data.events))

\* A Python dict as the sequence of its <<key, value>> items in insertion
\* order: d.get(k, default) and d[k] = v
DictHas(d, k) == \E i \in 1..Len(d) : d[i][1] = k

DictGet(d, k, default) ==
    IF DictHas(d, k) THEN d[CHOOSE i \in 1..Len(d) : d[i][1] = k][2]
    ELSE default

DictSet(d, k, v) ==
    IF DictHas(d, k)
    THEN LET i == CHOOSE j \in 1..Len(d) : d[j][1] = k
         IN  SubSeq(d, 1, i - 1) \o <<<<k, v>>>> \o SubSeq(d, i + 1, Len(d))
    ELSE Append(d, <<k, v>>)

\* len(d) taken where sum(d.values()) is meant
CountKeys(d, i) == Len(d)

RECURSIVE SumValues(_, _)
\* sum(d.values()) of a dict of ints
SumValues(d, i) == IF i > Len(d) THEN 0 ELSE d[i][2] + SumValues(d, i + 1)

\* sorted(items, key = lambda x: x[1], reverse = True), given the set lt of
\* the index pairs <<i, j>> with items[i][1] < items[j][1]: the stable sort,
\* items with equal keys keep the order they have in items
SortedByValueDesc(items, lt) ==
    LET n == Len(items)
        rank(i) ==
            Cardinality({j \in 1..n : <<i, j>> \in lt})
            + Cardinality({j \in 1..(i - 1) :
                   <<i, j>> \notin lt /\ <<j, i>> \notin lt})
            + 1
    IN  [k \in 1..n |-> items[CHOOSE i \in 1..n : rank(i) = k]]

\* the sort of a dict of int counts
SortedByCountDesc(items) ==
    SortedByValueDesc(items,
        {p \in (1..Len(items)) \X (1..Len(items)) :
            items[p[1]][2] < items[p[2]][2]})

\* the sort of a dict of float times
SortedByTimeDesc(items) ==
    SortedByValueDesc(items,
        {p \in (1..Len(items)) \X (1..Len(items)) :
            FloatLess(items[p[1]][2], items[p[2]][2])})

TopK == 10

\* s[:TopK]
Top(s) == IF Len(s) <= TopK THEN s ELSE SubSeq(s, 1, TopK)

\* the body of "for inc in unit.includes" on acc = [counts, times], the
\* dicts include_counts and include_times
IncludeStep(acc, inc) ==
    LET path == inc.header_path
    IN  [counts |-> DictSet(acc.counts, path, DictGet(acc.counts, path, 0) + 1),
         times  |-> DictSet(acc.times, path,
                        FloatAdd(DictGet(acc.times, path, FZero),
                                 milliseconds(inc.include_time)))]

RECURSIVE AggregateIncludes(_, _)
\* "for inc in unit.includes" from the loop state st = [i, acc]: includes[i]
\* is the next element, acc the dicts so far; the dicts when the loop ends
AggregateIncludes(st, includes) ==
    IF st.i > Len(includes) THEN st.acc
    ELSE AggregateIncludes(
             [i |-> st.i + 1, acc |-> IncludeStep(st.acc, includes[st.i])],
             includes)

\* the body of "for tmpl in unit.templates" on acc = [counts, times], the
\* dicts template_counts and template_times
TemplateStep(acc, tmpl) ==
    LET name == tmpl.template_name
    IN  [counts |-> DictSet(acc.counts, name, DictGet(acc.counts, name, 0) + 1),
         times  |-> DictSet(acc.times, name,
                        FloatAdd(DictGet(acc.times, name, FZero),
                                 milliseconds(tmpl.instantiation_time)))]

RECURSIVE AggregateTemplates(_, _)
\* "for tmpl in unit.templates" from the loop state st = [i, acc]; the dicts
\* when the loop ends
AggregateTemplates(st, templates) ==
    IF st.i > Len(templates) THEN st.acc
    ELSE AggregateTemplates(
             [i |-> st.i + 1, acc |-> TemplateStep(st.acc, templates[st.i])],
             templates)

\* FileMetrics(file_path, compile_time_ms, include_count,
\* template_instantiation_count) of one unit
FileMetricsOf(unit) ==
    [file_path                    |-> unit.source_file,
     compile_time_ms              |-> milliseconds(unit.total_time),
     include_count                |-> Len(unit.includes),
     template_instantiation_count |-> Len(unit.templates)]

\* total_compile_time assigned from each unit instead of accumulated
TotalCompileTimeLast(units) ==
    IF units = <<>> THEN 0 ELSE units[Len(units)].total_time

\* result.total_compile_time after "for unit in units"
TotalCompileTime(units) ==
    LET RECURSIVE Acc(_)
        Acc(i) == IF i = 0 THEN 0
                  ELSE DurationAdd(Acc(i - 1), units[i].total_time)
    IN  Acc(Len(units))

EmptyDicts == [counts |-> <<>>, times |-> <<>>]

\* the body of "for unit in units" on acc = [inc, tmpl], the include and the
\* template dicts
UnitStep(acc, unit) ==
    [inc  |-> AggregateIncludes([i |-> 1, acc |-> acc.inc], unit.includes),
     tmpl |-> AggregateTemplates([i |-> 1, acc |-> acc.tmpl], unit.templates)]

RECURSIVE AggregateUnits(_, _)
\* "for unit in units" from the loop state st = [i, acc]: units[i] is the
\* next unit, acc the include and template dicts so far; the dicts when the
\* loop ends
AggregateUnits(st, units) ==
    IF st.i > Len(units) THEN st.acc
    ELSE AggregateUnits(
             [i |-> st.i + 1, acc |-> UnitStep(st.acc, units[st.i])], units)

\* the fields of IncludeMetrics that from_compilation_units assigns, the
\* others at their dataclass defaults
IncludeMetricsOf(inc) ==
    [total_includes     |-> SumValues(inc.counts, 1),
     unique_includes    |-> Len(inc.counts),
     max_depth          |-> 0,
     total_include_time |-> 0,
     most_included      |-> Top(SortedByCountDesc(inc.counts)),
     slowest_includes   |-> Top(SortedByTimeDesc(inc.times))]

TemplateMetricsOf(tmpl) ==
    [total_instantiations |-> SumValues(tmpl.counts, 1),
     unique_templates     |-> Len(tmpl.counts),
     total_template_time  |-> 0,
     most_instantiated    |-> Top(SortedByCountDesc(tmpl.counts)),
     slowest_templates    |-> Top(SortedByTimeDesc(tmpl.times))]

\* SymbolMetrics() and DependencyMetrics(): never assigned by the aggregator
SymbolMetricsDefault ==
    [total_symbols |-> 0, inline_symbols |-> 0, template_symbols |-> 0,
     total_symbol_size |-> 0]

DependencyMetricsDefault ==
    [total_dependencies |-> 0, circular_dependencies |-> 0,
     max_dependency_depth |-> 0, strongly_connected_components |-> 0]

\* AnalysisResult.from_compilation_units(units)
from_compilation_units(units) ==
    LET acc == AggregateUnits(
                   [i |-> 1, acc |-> [inc |-> EmptyDicts, tmpl |-> EmptyDicts]],
                   units)
    IN  [file_metrics       |-> [i \in 1..Len(units) |-> FileMetricsOf(units[i])],
         include_metrics    |-> IncludeMetricsOf(acc.inc),
         template_metrics   |-> TemplateMetricsOf(acc.tmpl),
         symbol_metrics     |-> SymbolMetricsDefault,
         dependency_metrics |-> DependencyMetricsDefault,
         total_compile_time |-> TotalCompileTime(units),
         file_count         |-> Len(units)]

(***************************************************************************)
(* Inputs.  A trace document (a file's content, or a string handed to      *)
(* add_trace_content) is [json, events]: json = "malformed" when           *)
(* json.load raises JSONDecodeError, json = "object" for a JSON object     *)
(* whose "traceEvents" (default []) is events.                             *)
(***************************************************************************)
Ev(name, dur, detail) == [name |-> name, dur |-> dur, detail |-> detail]

Object(events) == [json |-> "object", events |-> events]

Malformed == [json |-> "malformed", events |-> <<>>]

\* a unit just over the slow threshold, two headers with equal count and
\* equal time, first seen in the order b.h, a.h
DocSlowA ==
    Object(<<Ev("Total ExecuteCompiler", 5000001, None),
             Ev("Total Frontend", 3000000, None),
             Ev("Total Backend", 2000000, None),
             Ev("Source", 100, Some("b.h")),
             Ev("Source", 100, Some("a.h")),
             Ev("InstantiateClass", 20000, Some("std::vector<int>"))>>)

\* a slower unit
DocSlowB ==
    Object(<<Ev("Total ExecuteCompiler", 7000004, None),
             Ev("Source", 200, Some("a.h")),
             Ev("Source", 50, None),
             Ev("InstantiateFunction", 300, Some("std::vector<char>"))>>)

\* a unit of exactly 5000 ms
DocEdge ==
    Object(<<Ev("Total ExecuteCompiler", 5000000, None),
             Ev("Source", 300, Some("c.h")),
             Ev("Source", 100, Some("a.h"))>>)

\* the strings the caller passes to add_trace_content
Contents == {DocSlowA, DocSlowB, Malformed}

\* the paths the caller passes to add_trace_file and export
Paths == {"edge.json", "bad.json", "new.json"}

\* the files that exist when the Analyzer is constructed
InitialFiles ==
    [p \in {"edge.json", "bad.json"} |->
        IF p = "edge.json" THEN DocEdge ELSE Malformed]

\* the formats the caller asks export for: JSON, and one of the four others
\* (HTML, CSV, SARIF and Markdown all take the same branch)
ExportFormats == {"json", "html"}

\* the path arguments of export: None, the empty string, an existing file,
\* a new file
ExportPaths == {None, Some(""), Some("bad.json"), Some("new.json")}

\* the caller adds at most MaxTraces traces
MaxTraces == 3

(***************************************************************************)
(* bha.Analyzer, with _HAS_NATIVE = False                                  *)
(***************************************************************************)
VARIABLES
    fs,               \* the file system: existing path -> document
    trace_files,      \* self._trace_files
    trace_content,    \* self._trace_content
    analysis_result,  \* self._analysis_result: None or Some(AnalysisResult)
    suggestions,      \* self._suggestions
    added,            \* history: the traces added, in the caller's order
    analyzed,         \* history: whether an analyze() call has returned
    outcome,          \* history: the last call, what it raised or returned
    build_trace,      \* a BuildTrace the caller holds: units, total_build_time
    duration,         \* a Duration the caller holds
    twin              \* a second Analyzer instance in the same process

vars == <<fs, trace_files, trace_content, analysis_result, suggestions,
          added, analyzed, outcome, build_trace, duration, twin>>

\* BuildTrace(): units = [], total_build_time = Duration()
BuildTrace == [units |-> <<>>, total_build_time |-> Duration]

\* Analyzer(): the fields of a second instance after __init__, with its
\* history: the traces added, the documents its last analyze() that returned
\* has parsed, and how many analyze() calls in a row have returned on the
\* same traces and documents
NewAnalyzer ==
    [trace_files     |-> <<>>,
     trace_content   |-> <<>>,
     analysis_result |-> None,
     suggestions     |-> <<>>,
     added           |-> <<>>,
     read            |-> None,
     runs            |-> 0]

Returned(op, value) == [op |-> op, raised |-> "none", ret |-> Some(value)]

Raised(op, exc) == [op |-> op, raised |-> exc, ret |-> None]

\* os.path.exists(path)
Exists(files, path) == path \in DOMAIN files

\* open(path, 'w').write(content)
WriteFile(files, path, content) ==
    [q \in DOMAIN files \cup {path} |-> IF q = path THEN content ELSE files[q]]

\* the documents _analyze_python loads, in its order: every trace file,
\* then every trace content, each with its source hint
Loaded(files, tfiles, tcontent) ==
    [i \in 1..Len(tfiles) |-> [doc |-> files[tfiles[i]], hint |-> tfiles[i]]]
    \o [i \in 1..Len(tcontent) |-> [doc |-> tcontent[i], hint |-> "<content>"]]

\* whether _analyze_python raises RuntimeError (a JSONDecodeError was caught)
ParseFails(loaded) == \E i \in 1..Len(loaded) : loaded[i].doc.json = "malformed"

\* the units _analyze_python collects when no document is malformed
UnitsOf(loaded) ==
    [i \in 1..Len(loaded) |-> from_json(loaded[i].doc, loaded[i].hint)]

\* Analyzer._analyze_python when it returns
analyze_python(files, tfiles, tcontent) ==
    from_compilation_units(UnitsOf(Loaded(files, tfiles, tcontent)))

\* the threshold of "fm.compile_time_ms > 5000"
SlowMs == 5000

\* the threshold test written with >= in place of >
IsSlowAtLeast(fm) == ~FloatLess(fm.compile_time_ms, FloatOfInt(SlowMs))

IsSlow(fm) == FloatLess(FloatOfInt(SlowMs), fm.compile_time_ms)

\* the Suggestion built for one slow file (description is left out)
SuggestionFor(fm) ==
    [type                |-> "pch",
     priority            |-> "HIGH",
     title               |-> <<"Consider PCH for ", fm.file_path>>,
     file_path           |-> fm.file_path,
     estimated_impact_ms |-> FloatMul(fm.compile_time_ms, Float03),
     confidence          |-> "MEDIUM"]

RECURSIVE SuggestFrom(_, _)
SuggestFrom(file_metrics, i) ==
    IF i > Len(file_metrics) THEN <<>>
    ELSE (IF IsSlow(file_metrics[i])
          THEN <<SuggestionFor(file_metrics[i])>> ELSE <<>>)
         \o SuggestFrom(file_metrics, i + 1)

\* Analyzer._generate_suggestions_python, for self._analysis_result = result
generate_suggestions_python(result) ==
    IF result = None THEN <<>> ELSE SuggestFrom(result[1].file_metrics, 1)

\* AnalysisResult.to_dict(), then json.dumps: the exported document
to_dict(result) ==
    [bha_version |-> "1.0.0",
     summary     |-> [total_compile_time_ms |-> milliseconds(result.total_compile_time),
                      file_count            |-> result.file_count],
     file_metrics       |-> result.file_metrics,
     include_metrics    |-> result.include_metrics,
     template_metrics   |-> result.template_metrics,
     symbol_metrics     |-> result.symbol_metrics,
     dependency_metrics |-> result.dependency_metrics]

\* what json.load gives back for an exported file: a JSON object that has
\* no "traceEvents" key
ExportedDoc == Object(<<>>)

Init ==
    /\ fs = InitialFiles
    /\ trace_files = <<>>
    /\ trace_content = <<>>
    /\ analysis_result = None
    /\ suggestions = <<>>
    /\ added = <<>>
    /\ analyzed = FALSE
    /\ outcome = Returned("__init__", None)
    /\ build_trace = BuildTrace
    /\ duration = Duration
    /\ twin = NewAnalyzer

\* add_trace_file without its os.path.exists check
add_trace_file_unchecked(path) ==
    /\ Len(added) < MaxTraces
    /\ trace_files' = Append(trace_files, path)
    /\ added' = Append(added, [kind |-> "file", hint |-> path])
    /\ outcome' = Returned("add_trace_file", None)
    /\ UNCHANGED <<fs, trace_content, analysis_result, suggestions, analyzed>>
    /\ UNCHANGED <<build_trace, duration, twin>>

add_trace_file(path) ==
    /\ Len(added) < MaxTraces
    /\ IF ~Exists(fs, path)
       THEN /\ outcome' = Raised("add_trace_file", "FileNotFoundError")
            /\ UNCHANGED <<trace_files, added>>
       ELSE /\ trace_files' = Append(trace_files, path)
            /\ added' = Append(added, [kind |-> "file", hint |-> path])
            /\ outcome' = Returned("add_trace_file", None)
    /\ UNCHANGED <<fs, trace_content, analysis_result, suggestions, analyzed>>
    /\ UNCHANGED <<build_trace, duration, twin>>

\* add_trace_content that discards the stored result
add_trace_content_invalidating(content) ==
    /\ Len(added) < MaxTraces
    /\ trace_content' = Append(trace_content, content)
    /\ added' = Append(added, [kind |-> "content", hint |-> "<content>"])
    /\ outcome' = Returned("add_trace_content", None)
    /\ analysis_result' = None
    /\ UNCHANGED <<fs, trace_files, suggestions, analyzed>>
    /\ UNCHANGED <<build_trace, duration, twin>>

add_trace_content(content) ==
    /\ Len(added) < MaxTraces
    /\ trace_content' = Append(trace_content, content)
    /\ added' = Append(added, [kind |-> "content", hint |-> "<content>"])
    /\ outcome' = Returned("add_trace_content", None)
    /\ UNCHANGED <<fs, trace_files, analysis_result, suggestions, analyzed>>
    /\ UNCHANGED <<build_trace, duration, twin>>

\* analyze that resets the stored result before it parses
analyze_clearing ==
    /\ IF trace_files = <<>> /\ trace_content = <<>>
       THEN /\ outcome' = Raised("analyze", "RuntimeError")
            /\ UNCHANGED <<analysis_result, analyzed>>
       ELSE IF ParseFails(Loaded(fs, trace_files, trace_content))
       THEN /\ outcome' = Raised("analyze", "RuntimeError")
            /\ analysis_result' = None
            /\ UNCHANGED analyzed
       ELSE LET result == analyze_python(fs, trace_files, trace_content)
            IN  /\ analysis_result' = Some(result)
                /\ analyzed' = TRUE
                /\ outcome' = Returned("analyze", result)
    /\ UNCHANGED <<fs, trace_files, trace_content, suggestions, added>>
    /\ UNCHANGED <<build_trace, duration, twin>>

\* analyze that adds the new total to the total of the stored result
analyze_merging ==
    /\ IF trace_files = <<>> /\ trace_content = <<>>
       THEN /\ outcome' = Raised("analyze", "RuntimeError")
            /\ UNCHANGED <<analysis_result, analyzed>>
       ELSE IF ParseFails(Loaded(fs, trace_files, trace_content))
       THEN /\ outcome' = Raised("analyze", "RuntimeError")
            /\ UNCHANGED <<analysis_result, analyzed>>
       ELSE LET fresh  == analyze_python(fs, trace_files, trace_content)
                result == IF analysis_result = None THEN fresh
                          ELSE [fresh EXCEPT !.total_compile_time =
                                    DurationAdd(@, analysis_result[1].total_compile_time)]
            IN  /\ analysis_result' = Some(result)
                /\ analyzed' = TRUE
                /\ outcome' = Returned("analyze", result)
    /\ UNCHANGED <<fs, trace_files, trace_content, suggestions, added>>
    /\ UNCHANGED <<build_trace, duration, twin>>

\* analyze that stores an empty result before it raises for missing traces
analyze_storing ==
    /\ IF trace_files = <<>> /\ trace_content = <<>>
       THEN /\ outcome' = Raised("analyze", "RuntimeError")
            /\ analysis_result' = Some(from_compilation_units(<<>>))
            /\ UNCHANGED analyzed
       ELSE IF ParseFails(Loaded(fs, trace_files, trace_content))
       THEN /\ outcome' = Raised("analyze", "RuntimeError")
            /\ UNCHANGED <<analysis_result, analyzed>>
       ELSE LET result == analyze_python(fs, trace_files, trace_content)
            IN  /\ analysis_result' = Some(result)
                /\ analyzed' = TRUE
                /\ outcome' = Returned("analyze", result)
    /\ UNCHANGED <<fs, trace_files, trace_content, suggestions, added>>
    /\ UNCHANGED <<build_trace, duration, twin>>

\* analyze without its "No trace files or content added" check
analyze_unchecked ==
    /\ IF ParseFails(Loaded(fs, trace_files, trace_content))
       THEN /\ outcome' = Raised("analyze", "RuntimeError")
            /\ UNCHANGED <<analysis_result, analyzed>>
       ELSE LET result == analyze_python(fs, trace_files, trace_content)
            IN  /\ analysis_result' = Some(result)
                /\ analyzed' = TRUE
                /\ outcome' = Returned("analyze", result)
    /\ UNCHANGED <<fs, trace_files, trace_content, suggestions, added>>
    /\ UNCHANGED <<build_trace, duration, twin>>

analyze ==
    /\ IF trace_files = <<>> /\ trace_content = <<>>
       THEN /\ outcome' = Raised("analyze", "RuntimeError")
            /\ UNCHANGED <<analysis_result, analyzed>>
       ELSE IF ParseFails(Loaded(fs, trace_files, trace_content))
       THEN /\ outcome' = Raised("analyze", "RuntimeError")
            /\ UNCHANGED <<analysis_result, analyzed>>
       ELSE LET result == analyze_python(fs, trace_files, trace_content)
            IN  /\ analysis_result' = Some(result)
                /\ analyzed' = TRUE
                /\ outcome' = Returned("analyze", result)
    /\ UNCHANGED <<fs, trace_files, trace_content, suggestions, added>>
    /\ UNCHANGED <<build_trace, duration, twin>>

\* get_suggestions that extends the stored list instead of replacing it
get_suggestions_accumulating ==
    /\ IF analysis_result = None
       THEN /\ outcome' = Raised("get_suggestions", "RuntimeError")
            /\ UNCHANGED suggestions
       ELSE LET new == suggestions \o generate_suggestions_python(analysis_result)
            IN  /\ suggestions' = new
                /\ outcome' = Returned("get_suggestions", new)
    /\ UNCHANGED <<fs, trace_files, trace_content, analysis_result, added,
                   analyzed>>
    /\ UNCHANGED <<build_trace, duration, twin>>

\* get_suggestions that empties file_metrics of the stored result as it goes
get_suggestions_draining ==
    /\ IF analysis_result = None
       THEN /\ outcome' = Raised("get_suggestions", "RuntimeError")
            /\ UNCHANGED <<suggestions, analysis_result>>
       ELSE LET new == generate_suggestions_python(analysis_result)
            IN  /\ suggestions' = new
                /\ outcome' = Returned("get_suggestions", new)
                /\ analysis_result' =
                       Some([analysis_result[1] EXCEPT !.file_metrics = <<>>])
    /\ UNCHANGED <<fs, trace_files, trace_content, added, analyzed>>
    /\ UNCHANGED <<build_trace, duration, twin>>

\* get_suggestions without its "Must call analyze() first" check
get_suggestions_unchecked ==
    LET new == generate_suggestions_python(analysis_result)
    IN  /\ suggestions' = new
        /\ outcome' = Returned("get_suggestions", new)
        /\ UNCHANGED <<fs, trace_files, trace_content, analysis_result, added,
                       analyzed>>
        /\ UNCHANGED <<build_trace, duration, twin>>

get_suggestions ==
    /\ IF analysis_result = None
       THEN /\ outcome' = Raised("get_suggestions", "RuntimeError")
            /\ UNCHANGED suggestions
       ELSE LET new == generate_suggestions_python(analysis_result)
            IN  /\ suggestions' = new
                /\ outcome' = Returned("get_suggestions", new)
    /\ UNCHANGED <<fs, trace_files, trace_content, analysis_result, added,
                   analyzed>>
    /\ UNCHANGED <<build_trace, duration, twin>>

\* export(export_format, path, options = None); "if path:" writes the file,
\* so path = None and path = "" write no file
export(export_format, path) ==
    /\ IF analysis_result = None
       THEN /\ outcome' = Raised("export", "RuntimeError")
            /\ UNCHANGED fs
       ELSE IF export_format # "json"
       THEN /\ outcome' = Raised("export", "NotImplementedError")
            /\ UNCHANGED fs
       ELSE /\ outcome' = Returned("export", to_dict(analysis_result[1]))
            /\ fs' = IF path = None \/ path = Some("") THEN fs
                     ELSE WriteFile(fs, path[1], ExportedDoc)
    /\ UNCHANGED <<trace_files, trace_content, analysis_result, suggestions,
                   added, analyzed>>
    /\ UNCHANGED <<build_trace, duration, twin>>

Next ==
    \/ \E path \in Paths : add_trace_file(path)
    \/ \E content \in Contents : add_trace_content(content)
    \/ analyze
    \/ get_suggestions
    \/ \E f \in ExportFormats, path \in ExportPaths : export(f, path)

Spec == Init /\ [][Next]_vars

(***************************************************************************)
(* The Analyzer after n add_trace_content calls with the same kind of      *)
(* document (a unit that includes the header h.h once), for the rules      *)
(* that look at many units.  From there on the caller analyzes, asks for   *)
(* suggestions and exports.                                                *)
(***************************************************************************)
BulkDoc(total, dur) ==
    Object(<<Ev("Total ExecuteCompiler", total, None),
             Ev("Source", dur, Some("h.h"))>>)

\* total_time of a bulk unit (us): 100 ms, 6000 ms
BulkTotals == {100000, 6000000}

\* include_time of h.h in a bulk unit (us): 40 ms, 60 ms
BulkIncludeTimes == {40000, 60000}

\* at most MaxBulk units
MaxBulk == 12

InitBulk ==
    \E n \in 0..MaxBulk, total \in BulkTotals, dur \in BulkIncludeTimes :
        /\ fs = InitialFiles
        /\ trace_files = <<>>
        /\ trace_content = [i \in 1..n |-> BulkDoc(total, dur)]
        /\ analysis_result = None
        /\ suggestions = <<>>
        /\ added = [i \in 1..n |-> [kind |-> "content", hint |-> "<content>"]]
        /\ analyzed = FALSE
        /\ outcome = IF n = 0 THEN Returned("__init__", None)
                     ELSE Returned("add_trace_content", None)
        /\ build_trace = BuildTrace
        /\ duration = Duration
        /\ twin = NewAnalyzer

NextBulk ==
    \/ analyze
    \/ get_suggestions
    \/ \E f \in ExportFormats, path \in ExportPaths : export(f, path)

SpecBulk == InitBulk /\ [][NextBulk]_vars

(***************************************************************************)
(* The Analyzer after one add_trace_content call whose document is any     *)
(* list of at most MaxEvents events drawn from ParseEvents: repeated and   *)
(* unrecognized event names, a negative dur, a Source event without        *)
(* args.detail, a template event without args.detail.  From there on the   *)
(* caller analyzes, asks for suggestions and exports.                      *)
(***************************************************************************)
ParseEvents ==
    {Ev("Total ExecuteCompiler", 7, None),
     Ev("Total ExecuteCompiler", -3, None),
     Ev("Total Frontend", 5, None),
     Ev("Total Backend", 4, None),
     Ev("Source", 2, Some("a.h")),
     Ev("Source", 6, None),
     Ev("InstantiateFunction", 3, None),
     Ev("Frontend", 9, Some("a.h"))}

\* a trace document has at most MaxEvents events
MaxEvents == 3

EventLists == UNION {[1..k -> ParseEvents] : k \in 0..MaxEvents}

InitParse ==
    \E events \in EventLists :
        /\ fs = InitialFiles
        /\ trace_files = <<>>
        /\ trace_content = <<Object(events)>>
        /\ analysis_result = None
        /\ suggestions = <<>>
        /\ added = <<[kind |-> "content", hint |-> "<content>"]>>
        /\ analyzed = FALSE
        /\ outcome = Returned("add_trace_content", None)
        /\ build_trace = BuildTrace
        /\ duration = Duration
        /\ twin = NewAnalyzer

NextParse ==
    \/ analyze
    \/ get_suggestions
    \/ \E f \in ExportFormats, path \in ExportPaths : export(f, path)

SpecParse == InitParse /\ [][NextParse]_vars

(***************************************************************************)
(* The aggregator called directly, as a caller of bha.types does:          *)
(* AnalysisResult.from_compilation_units(units) for any list of at most    *)
(* MaxUnits units, the empty list included, next to an Analyzer to which   *)
(* no trace was added.                                                     *)
(***************************************************************************)
\* the units the caller builds: three parsed traces and
\* CompilationUnit(source_file = "") with every other field at its default
CallerUnits ==
    {from_json(DocSlowA, "a.cpp"), from_json(DocSlowB, "b.cpp"),
     from_json(DocEdge, "c.cpp"), NewUnit("")}

\* the caller passes at most MaxUnits units
MaxUnits == 4

UnitLists == UNION {[1..k -> CallerUnits] : k \in 0..MaxUnits}

\* AnalysisResult.from_compilation_units(units), called by the caller; the
\* call is a pure function of units, so a second call right after a first
\* is left out
call_from_compilation_units(units) ==
    /\ outcome.op # "from_compilation_units"
    /\ outcome' = Returned("from_compilation_units", from_compilation_units(units))
    /\ UNCHANGED <<fs, trace_files, trace_content, analysis_result, suggestions,
                   added, analyzed>>
    /\ UNCHANGED <<build_trace, duration, twin>>

NextAggregate ==
    \/ \E units \in UnitLists : call_from_compilation_units(units)
    \/ analyze
    \/ get_suggestions

SpecAggregate == Init /\ [][NextAggregate]_vars

(***************************************************************************)
(* A caller of bha.types that fills a BuildTrace with add_unit and passes  *)
(* its units to the aggregator, next to an Analyzer that holds two slow    *)
(* traces and is asked to analyze and to suggest.                          *)
(***************************************************************************)
\* a unit main.cpp whose includes form a cycle: main.cpp includes a.h, a.h
\* includes b.h and b.h includes a.h (is_direct = False for the last two);
\* an include without included_by has the dataclass default None
CycleUnit ==
    [source_file   |-> "main.cpp",
     total_time    |-> from_microseconds(900),
     frontend_time |-> Duration,
     backend_time  |-> Duration,
     includes      |-> <<[header_path  |-> "a.h",
                          include_time |-> from_microseconds(30),
                          included_by  |-> None],
                         [header_path  |-> "b.h",
                          include_time |-> from_microseconds(20),
                          included_by  |-> Some("a.h")],
                         [header_path  |-> "a.h",
                          include_time |-> from_microseconds(10),
                          included_by  |-> Some("b.h")]>>,
     templates     |-> <<>>]

\* the units the caller adds to the trace
TraceUnits == CallerUnits \cup {CycleUnit}

\* the caller adds at most MaxBuildUnits units
MaxBuildUnits == 3

\* add_unit with total_build_time assigned (=) instead of added to (+)
add_unit_assigning(unit) ==
    /\ Len(build_trace.units) < MaxBuildUnits
    /\ build_trace' = [units            |-> Append(build_trace.units, unit),
                       total_build_time |-> unit.total_time]
    /\ outcome' = Returned("add_unit", None)
    /\ UNCHANGED <<fs, trace_files, trace_content, analysis_result, suggestions,
                   added, analyzed, duration, twin>>

\* BuildTrace.add_unit(unit)
add_unit(unit) ==
    /\ Len(build_trace.units) < MaxBuildUnits
    /\ build_trace' =
           [units            |-> Append(build_trace.units, unit),
            total_build_time |-> DurationAdd(build_trace.total_build_time,
                                             unit.total_time)]
    /\ outcome' = Returned("add_unit", None)
    /\ UNCHANGED <<fs, trace_files, trace_content, analysis_result, suggestions,
                   added, analyzed, duration, twin>>

InitTrace ==
    /\ fs = InitialFiles
    /\ trace_files = <<>>
    /\ trace_content = <<DocSlowA, DocSlowB>>
    /\ analysis_result = None
    /\ suggestions = <<>>
    /\ added = [i \in 1..2 |-> [kind |-> "content", hint |-> "<content>"]]
    /\ analyzed = FALSE
    /\ outcome = Returned("add_trace_content", None)
    /\ build_trace = BuildTrace
    /\ duration = Duration
    /\ twin = NewAnalyzer

NextTrace ==
    \/ \E unit \in TraceUnits : add_unit(unit)
    \/ call_from_compilation_units(build_trace.units)
    \/ analyze
    \/ get_suggestions

SpecTrace == InitTrace /\ [][NextTrace]_vars

(***************************************************************************)
(* A caller of bha.types that holds a Duration, starting from Duration(),  *)
(* and keeps adding to it and subtracting from it: d = d + other,          *)
(* d = d - other.                                                          *)
(***************************************************************************)
\* the durations the caller adds and subtracts
DurationOperands == {from_microseconds(1), from_microseconds(7)}

\* the caller keeps the duration within MaxDuration of zero
MaxDuration == 60

\* d = d + other
duration_add(other) ==
    LET sum == DurationAdd(duration, other)
    IN  /\ sum <= MaxDuration
        /\ duration' = sum
        /\ outcome' = Returned("Duration.__add__", sum)
        /\ UNCHANGED <<fs, trace_files, trace_content, analysis_result,
                       suggestions, added, analyzed, build_trace,
                       twin>>

\* d = d - other
duration_sub(other) ==
    LET diff == DurationSub(duration, other)
    IN  /\ diff >= -MaxDuration
        /\ duration' = diff
        /\ outcome' = Returned("Duration.__sub__", diff)
        /\ UNCHANGED <<fs, trace_files, trace_content, analysis_result,
                       suggestions, added, analyzed, build_trace,
                       twin>>

NextDuration ==
    \/ \E other \in DurationOperands : duration_add(other)
    \/ \E other \in DurationOperands : duration_sub(other)

SpecDuration == Init /\ [][NextDuration]_vars

(***************************************************************************)
(* The Analyzer after one add_trace_content call whose document is any     *)
(* list of at most MaxOrderEvents include and template events, with        *)
(* repeated details and different durations and a template event without   *)
(* args.detail, for the order and the content of the parsed lists.  From   *)
(* there on the caller analyzes and asks for suggestions.                  *)
(***************************************************************************)
OrderEvents ==
    {Ev("Source", 2, Some("a.h")),
     Ev("Source", 4, Some("b.h")),
     Ev("Source", 6, Some("a.h")),
     Ev("InstantiateClass", 3, Some("std::vector<int>")),
     Ev("InstantiateFunction", 5, Some("std::vector<char>")),
     Ev("InstantiateClass", 7, Some("std::vector<int>")),
     Ev("InstantiateFunction", 1, None)}

\* a trace document has at most MaxOrderEvents events
MaxOrderEvents == 4

OrderLists == UNION {[1..k -> OrderEvents] : k \in 0..MaxOrderEvents}

InitOrder ==
    \E events \in OrderLists :
        /\ fs = InitialFiles
        /\ trace_files = <<>>
        /\ trace_content = <<Object(events)>>
        /\ analysis_result = None
        /\ suggestions = <<>>
        /\ added = <<[kind |-> "content", hint |-> "<content>"]>>
        /\ analyzed = FALSE
        /\ outcome = Returned("add_trace_content", None)
        /\ build_trace = BuildTrace
        /\ duration = Duration
        /\ twin = NewAnalyzer

NextOrder ==
    \/ analyze
    \/ get_suggestions

SpecOrder == InitOrder /\ [][NextOrder]_vars

(***************************************************************************)
(* Two Analyzer instances in one process.  The first is fed a trace file   *)
(* and trace contents and is asked to analyze, to suggest and to export,   *)
(* also over the trace file it holds; the second is fed the same traces in *)
(* the same order, one by one, and is asked to analyze, up to MaxRuns      *)
(* times in a row.                                                         *)
(***************************************************************************)
\* the traces the first instance is fed
TwinPaths == {"edge.json"}

TwinContents == {DocSlowA}

\* export as JSON over the trace file
TwinExportPaths == {Some("edge.json")}

\* the second instance is asked to analyze at most MaxRuns times in a row
MaxRuns == 2

\* add_trace_file on the second instance
twin_add_trace_file(path) ==
    /\ IF ~Exists(fs, path)
       THEN UNCHANGED twin
       ELSE twin' = [twin EXCEPT
                        !.trace_files = Append(@, path),
                        !.added = Append(@, [kind |-> "file", hint |-> path]),
                        !.runs = 0]
    /\ UNCHANGED <<fs, trace_files, trace_content, analysis_result, suggestions,
                   added, analyzed, outcome, build_trace, duration>>

\* add_trace_content on the second instance
twin_add_trace_content(content) ==
    /\ twin' = [twin EXCEPT
                   !.trace_content = Append(@, content),
                   !.added = Append(@, [kind |-> "content",
                                        hint |-> "<content>"]),
                   !.runs = 0]
    /\ UNCHANGED <<fs, trace_files, trace_content, analysis_result, suggestions,
                   added, analyzed, outcome, build_trace, duration>>

\* analyze on the second instance; a call that raises changes nothing
twin_analyze ==
    LET loaded == Loaded(fs, twin.trace_files, twin.trace_content)
    IN  /\ twin.runs < MaxRuns
        /\ IF twin.trace_files = <<>> /\ twin.trace_content = <<>>
           THEN UNCHANGED twin
           ELSE IF ParseFails(loaded)
           THEN UNCHANGED twin
           ELSE twin' = [twin EXCEPT
                            !.analysis_result =
                                Some(analyze_python(fs, twin.trace_files,
                                                    twin.trace_content)),
                            !.read = Some(loaded),
                            !.runs = IF twin.runs >= 1 /\ twin.read = Some(loaded)
                                     THEN twin.runs + 1 ELSE 1]
        /\ UNCHANGED <<fs, trace_files, trace_content, analysis_result,
                       suggestions, added, analyzed, outcome, build_trace,
                       duration>>

\* the second instance has been fed k traces: the next one it is fed is the
\* (k+1)-th trace the first instance was fed, a path or a content
FedPaths ==
    IF Len(twin.added) < Len(added)
    THEN LET fed == added[Len(twin.added) + 1]
         IN  IF fed.kind = "file" THEN {fed.hint} ELSE {}
    ELSE {}

FedContents ==
    IF Len(twin.added) < Len(added)
    THEN LET fed == added[Len(twin.added) + 1]
         IN  IF fed.kind = "content"
             THEN {trace_content[Len(twin.trace_content) + 1]} ELSE {}
    ELSE {}

NextTwin ==
    \/ \E path \in TwinPaths : add_trace_file(path)
    \/ \E content \in TwinContents : add_trace_content(content)
    \/ analyze
    \/ get_suggestions
    \/ \E path \in TwinExportPaths : export("json", path)
    \/ \E path \in FedPaths : twin_add_trace_file(path)
    \/ \E content \in FedContents : twin_add_trace_content(content)
    \/ twin_analyze

SpecTwin == Init /\ [][NextTwin]_vars

(***************************************************************************)
(* Properties                                                              *)
(***************************************************************************)

\* every string of the model, in Python's str order (code point order)
StringOrder ==
    <<"", "<content>", "a.h", "b.h", "bad.json", "c.h", "edge.json", "h.h",
      "new.json", "std::vector<char>", "std::vector<int>">>

StrIndex(x) == CHOOSE i \in 1..Len(StringOrder) : StringOrder[i] = x

\* a < b for two Python strings
StrLess(a, b) == StrIndex(a) < StrIndex(b)

\* Priority.value
PriorityValue(p) ==
    CASE p = "LOW" -> 1 [] p = "MEDIUM" -> 2 [] p = "HIGH" -> 3
      [] p = "CRITICAL" -> 4

AnalyzeReturned == outcome.op = "analyze" /\ outcome.raised = "none"

SuggestionsReturned == outcome.op = "get_suggestions" /\ outcome.raised = "none"

\* the documents the last analyze() loaded: analyze changes neither the
\* trace lists nor the files, so right after it they are those of the state
LoadedNow == Loaded(fs, trace_files, trace_content)

\* C1: as long as no analyze() call has returned, a get_suggestions() or
\* export() call raises RuntimeError, however many traces were added before
C1_AnalyzeRequiredFirst ==
    (~analyzed /\ outcome.op \in {"get_suggestions", "export"})
        => outcome.raised = "RuntimeError"

\* C1 witness: two traces added, no analyze() yet, export() has just raised
C1_Witness ==
    /\ ~analyzed
    /\ Len(added) >= 2
    /\ outcome = Raised("export", "RuntimeError")

\* C2: analyze() over several traces of which some are malformed JSON and
\* some are not still returns a result, for exactly the traces that parse
C2_PartialFailureNotFatal ==
    (/\ outcome.op = "analyze"
     /\ Len(LoadedNow) >= 2
     /\ \E i \in 1..Len(LoadedNow) : LoadedNow[i].doc.json = "object")
        => /\ outcome.raised = "none"
           /\ outcome.ret[1].file_count =
                  Cardinality({i \in 1..Len(LoadedNow) :
                                  LoadedNow[i].doc.json = "object"})

\* C3: after a successful analyze(), file_count is the number of traces
\* added and file_metrics lists them in the order the caller added them
C3_CallerOrder ==
    AnalyzeReturned =>
        LET r == outcome.ret[1]
        IN  /\ r.file_count = Len(added)
            /\ Len(r.file_metrics) = Len(added)
            /\ \A i \in 1..Len(added) :
                   r.file_metrics[i].file_path = added[i].hint

Min(a, b) == IF a < b THEN a ELSE b

\* C4: most_included has at most min(10, unique_includes) entries, strictly
\* sorted by (count descending, header path ascending)
C4_MostIncludedSorted ==
    analysis_result # None =>
        LET im == analysis_result[1].include_metrics
            mi == im.most_included
        IN  /\ Len(mi) <= Min(10, im.unique_includes)
            /\ \A i \in 1..(Len(mi) - 1) :
                   \/ mi[i][2] > mi[i + 1][2]
                   \/ /\ mi[i][2] = mi[i + 1][2]
                      /\ StrLess(mi[i][1], mi[i + 1][1])

\* C5: slowest_includes is the Top-10 by summed include time, descending,
\* headers of equal summed time in alphabetical order of their path
C5_SlowestIncludesSorted ==
    analysis_result # None =>
        LET im == analysis_result[1].include_metrics
            sl == im.slowest_includes
        IN  /\ Len(sl) = Min(10, im.unique_includes)
            /\ \A i \in 1..(Len(sl) - 1) :
                   \/ FloatLess(sl[i + 1][2], sl[i][2])
                   \/ /\ sl[i][2] = sl[i + 1][2]
                      /\ StrLess(sl[i][1], sl[i + 1][1])

\* a comes strictly before b in the order (priority descending,
\* estimated_impact_ms descending, title ascending)
SuggestionBefore(a, b) ==
    \/ PriorityValue(a.priority) > PriorityValue(b.priority)
    \/ /\ a.priority = b.priority
       /\ \/ FloatLess(b.estimated_impact_ms, a.estimated_impact_ms)
          \/ /\ a.estimated_impact_ms = b.estimated_impact_ms
             /\ StrLess(a.title[2], b.title[2])

\* C6: the list get_suggestions() returns is strictly sorted by (priority
\* descending, estimated_impact_ms descending, title ascending)
C6_SuggestionsSorted ==
    SuggestionsReturned =>
        LET sg == outcome.ret[1]
        IN  \A i \in 1..(Len(sg) - 1) : SuggestionBefore(sg[i], sg[i + 1])

\* C7: no two suggestions of the returned list share (type, file_path, title)
C7_SuggestionsUnique ==
    SuggestionsReturned =>
        LET sg == outcome.ret[1]
        IN  \A i, j \in 1..Len(sg) :
                (/\ sg[i].type = sg[j].type
                 /\ sg[i].file_path = sg[j].file_path
                 /\ sg[i].title = sg[j].title) => i = j

\* compile_time_ms > 5000
Over5000(fm) == FloatLess(FloatOfInt(5000), fm.compile_time_ms)

\* C8: get_suggestions() returns one suggestion per file_metrics entry whose
\* compile_time_ms is strictly greater than 5000, and none for the others;
\* it has type PCH, priority High, confidence Medium, the entry's file_path
\* and estimated_impact_ms = compile_time_ms * 0.3
C8_SlowUnitRule ==
    SuggestionsReturned =>
        LET fms  == analysis_result[1].file_metrics
            sg   == outcome.ret[1]
            slow == {i \in 1..Len(fms) : Over5000(fms[i])}
            pos(i) == Cardinality({j \in slow : j <= i})
        IN  /\ Len(sg) = Cardinality(slow)
            /\ \A i \in slow :
                   /\ sg[pos(i)].type = "pch"
                   /\ sg[pos(i)].priority = "HIGH"
                   /\ sg[pos(i)].confidence = "MEDIUM"
                   /\ sg[pos(i)].file_path = fms[i].file_path
                   /\ sg[pos(i)].estimated_impact_ms
                          = FloatMul(fms[i].compile_time_ms, Float03)

\* C8 witness: a result with a unit of exactly 5000 ms and a unit above it,
\* for which a single suggestion has been returned
C8_Witness ==
    /\ SuggestionsReturned
    /\ Len(outcome.ret[1]) = 1
    /\ \E i \in 1..Len(analysis_result[1].file_metrics) :
           analysis_result[1].file_metrics[i].compile_time_ms = FloatOfInt(5000)
    /\ \E i \in 1..Len(analysis_result[1].file_metrics) :
           Over5000(analysis_result[1].file_metrics[i])

RECURSIVE FloatSum(_, _)
\* sum(fm.compile_time_ms for fm in file_metrics), left to right
FloatSum(fms, i) ==
    IF i = 0 THEN FZero
    ELSE FloatAdd(FloatSum(fms, i - 1), fms[i].compile_time_ms)

RECURSIVE SumTotalTime(_, _)
\* the exact sum of the units' total_time
SumTotalTime(units, i) ==
    IF i = 0 THEN 0 ELSE SumTotalTime(units, i - 1) + units[i].total_time

\* C10 as stated: the float sum of compile_time_ms over file_metrics equals
\* total_compile_time.milliseconds
C10_SumEqualsTotalMs ==
    AnalyzeReturned =>
        LET r == outcome.ret[1]
        IN  FloatSum(r.file_metrics, Len(r.file_metrics))
                = milliseconds(r.total_compile_time)

\* C10 amended: total_compile_time is the exact sum of the units'
\* total_time, every compile_time_ms is the milliseconds of its unit's
\* total_time, and for a single unit the two floats are equal
C10_TotalIsExactSum ==
    AnalyzeReturned =>
        LET r     == outcome.ret[1]
            units == UnitsOf(LoadedNow)
        IN  /\ r.total_compile_time = SumTotalTime(units, Len(units))
            /\ Len(r.file_metrics) = Len(units)
            /\ \A i \in 1..Len(units) :
                   r.file_metrics[i].compile_time_ms
                       = FloatDiv(units[i].total_time, 1000)
            /\ Len(units) = 1 =>
                   FloatSum(r.file_metrics, 1) = milliseconds(r.total_compile_time)

\* C10 witness: analyze() has returned for two units whose float
\* milliseconds do not add up to the milliseconds of the total
C10_Witness ==
    /\ AnalyzeReturned
    /\ Len(outcome.ret[1].file_metrics) = 2
    /\ FloatSum(outcome.ret[1].file_metrics, 2)
           # milliseconds(outcome.ret[1].total_compile_time)

\* the number of units that include header h
Includers(units, h) ==
    Cardinality({i \in 1..Len(units) :
        \E k \in 1..Len(units[i].includes) : units[i].includes[k].header_path = h})

RECURSIVE IncludeTimeIn(_, _, _)
\* the include time of header h summed over includes[1..k] (us)
IncludeTimeIn(includes, h, k) ==
    IF k = 0 THEN 0
    ELSE IncludeTimeIn(includes, h, k - 1)
         + (IF includes[k].header_path = h THEN includes[k].include_time ELSE 0)

RECURSIVE IncludeTimeOver(_, _, _)
\* the include time of header h summed over units[1..i] (us)
IncludeTimeOver(units, h, i) ==
    IF i = 0 THEN 0
    ELSE IncludeTimeOver(units, h, i - 1)
         + IncludeTimeIn(units[i].includes, h, Len(units[i].includes))

HeadersOf(units) ==
    UNION {{units[i].includes[k].header_path : k \in 1..Len(units[i].includes)} :
              i \in 1..Len(units)}

\* C9: a header included in at least 10 units, with a summed include time
\* of at least 500 ms, gets a PCH suggestion from get_suggestions()
C9_PchCandidateRule ==
    (analyzed /\ SuggestionsReturned) =>
        LET units == UnitsOf(LoadedNow)
            sg    == outcome.ret[1]
        IN  \A h \in HeadersOf(units) :
                (/\ Includers(units, h) >= 10
                 /\ IncludeTimeOver(units, h, Len(units)) >= 500 * 1000)
                    => \E j \in 1..Len(sg) :
                           /\ sg[j].type = "pch"
                           /\ (sg[j].file_path = h \/ sg[j].title[2] = h)

RECURSIVE SumIncludeLens(_, _)
\* the sum of len(unit.includes) over units[1..i]
SumIncludeLens(units, i) ==
    IF i = 0 THEN 0 ELSE SumIncludeLens(units, i - 1) + Len(units[i].includes)

\* C11: after analyze(), include_metrics.total_includes is the sum over the
\* units of len(unit.includes), unique_includes is the number of distinct
\* header paths, and unique_includes <= total_includes
C11_TotalIncludes ==
    AnalyzeReturned =>
        LET im    == outcome.ret[1].include_metrics
            units == UnitsOf(LoadedNow)
        IN  /\ im.total_includes = SumIncludeLens(units, Len(units))
            /\ im.unique_includes = Cardinality(HeadersOf(units))
            /\ im.unique_includes <= im.total_includes

\* C11 witness: analyze() has returned for units that include a header more
\* than once: three includes of two distinct headers
C11_Witness ==
    /\ AnalyzeReturned
    /\ outcome.ret[1].include_metrics.total_includes = 3
    /\ outcome.ret[1].include_metrics.unique_includes = 2

RECURSIVE SumTimesIn(_, _)
\* the sum of include_time over includes[1..k] (us)
SumTimesIn(includes, k) ==
    IF k = 0 THEN 0 ELSE SumTimesIn(includes, k - 1) + includes[k].include_time

RECURSIVE SumIncludeTimes(_, _)
\* the sum of include_time over every include of units[1..i] (us)
SumIncludeTimes(units, i) ==
    IF i = 0 THEN 0
    ELSE SumIncludeTimes(units, i - 1)
         + SumTimesIn(units[i].includes, Len(units[i].includes))

\* C12: after analyze(), include_metrics.total_include_time is the sum of
\* include_time over every include of every unit
C12_TotalIncludeTime ==
    AnalyzeReturned =>
        LET units == UnitsOf(LoadedNow)
        IN  outcome.ret[1].include_metrics.total_include_time
                = SumIncludeTimes(units, Len(units))

\* a template name without its template argument list
BareName(name) ==
    IF name \in {"std::vector<int>", "std::vector<char>"} THEN "std::vector"
    ELSE name

\* the number of template instantiations of the units whose bare name is b
InstantiationsOf(units, b) ==
    Cardinality(UNION {{<<i, k>> : k \in {j \in 1..Len(units[i].templates) :
                           BareName(units[i].templates[j].template_name) = b}} :
                       i \in 1..Len(units)})

\* C13: after analyze(), most_instantiated and slowest_templates are keyed
\* on the template name without its argument list, and the count of a name
\* is the number of instantiations of all its specializations
C13_BareTemplateNames ==
    AnalyzeReturned =>
        LET tm    == outcome.ret[1].template_metrics
            units == UnitsOf(LoadedNow)
        IN  /\ \A i \in 1..Len(tm.most_instantiated) :
                   /\ BareName(tm.most_instantiated[i][1]) = tm.most_instantiated[i][1]
                   /\ tm.most_instantiated[i][2]
                          = InstantiationsOf(units, tm.most_instantiated[i][1])
            /\ \A i \in 1..Len(tm.slowest_templates) :
                   BareName(tm.slowest_templates[i][1]) = tm.slowest_templates[i][1]

\* the unit analyze() parsed from the only trace, and that trace's events
ParsedUnit == UnitsOf(LoadedNow)[1]

ParsedEvents == LoadedNow[1].doc.events

\* the dur of the last event of the list named name, 0 when there is none
LastDur(events, name) ==
    LET at == {i \in 1..Len(events) : events[i].name = name}
    IN  IF at = {} THEN 0
        ELSE events[CHOOSE i \in at : \A j \in at : j <= i].dur

\* C14: parsing sets total_time, frontend_time and backend_time to the dur
\* (us) of the last event named exactly "Total ExecuteCompiler", "Total
\* Frontend" and "Total Backend" (0 when there is none); events of any other
\* name leave them alone
C14_TotalsLastWins ==
    (AnalyzeReturned /\ Len(LoadedNow) = 1) =>
        /\ ParsedUnit.total_time = LastDur(ParsedEvents, "Total ExecuteCompiler")
        /\ ParsedUnit.frontend_time = LastDur(ParsedEvents, "Total Frontend")
        /\ ParsedUnit.backend_time = LastDur(ParsedEvents, "Total Backend")
        /\ outcome.ret[1].file_metrics[1].compile_time_ms
               = FloatDiv(LastDur(ParsedEvents, "Total ExecuteCompiler"), 1000)
        /\ outcome.ret[1].total_compile_time
               = LastDur(ParsedEvents, "Total ExecuteCompiler")

\* C14 witness: analyze() has returned for a trace with two Total
\* ExecuteCompiler events around an event of an unrecognized name
C14_Witness ==
    /\ AnalyzeReturned
    /\ trace_content = <<Object(<<Ev("Total ExecuteCompiler", -3, None),
                                  Ev("Frontend", 9, Some("a.h")),
                                  Ev("Total ExecuteCompiler", 7, None)>>)>>
    /\ outcome.ret[1].total_compile_time = 7

\* a Source event without args.detail
IsDroppedSource(event) == event.name = "Source" /\ event.detail = None

\* the events of the list that are no Source event without args.detail
WithoutDropped(events) ==
    LET Kept(e) == ~IsDroppedSource(e) IN SelectSeq(events, Kept)

\* the Source events of the list that have args.detail
DetailedSources(events) ==
    LET Detailed(e) == e.name = "Source" /\ e.detail # None
    IN  SelectSeq(events, Detailed)

\* C15: a Source event without args.detail is dropped silently: analyze()
\* does not raise, includes holds exactly the Source events that have a
\* detail, in order, and the unit is the one parsed from the trace with the
\* dropped events removed
C15_SourceWithoutDetailDropped ==
    (outcome.op = "analyze" /\ Len(LoadedNow) = 1) =>
        LET src == DetailedSources(ParsedEvents)
        IN  /\ outcome.raised = "none"
            /\ ParsedUnit.includes =
                   [i \in 1..Len(src) |->
                       [header_path  |-> src[i].detail[1],
                        include_time |-> src[i].dur]]
            /\ outcome.ret[1].file_metrics[1].include_count = Len(src)
            /\ outcome.ret[1].include_metrics.total_includes = Len(src)
            /\ ParsedUnit =
                   from_json(Object(WithoutDropped(ParsedEvents)), "<content>")
            /\ outcome.ret[1] =
                   from_compilation_units(
                       <<from_json(Object(WithoutDropped(ParsedEvents)),
                                   "<content>")>>)

\* C15 witness: analyze() has returned for a trace whose first event is a
\* Source event without detail, followed by a Source event with a detail
C15_Witness ==
    /\ AnalyzeReturned
    /\ trace_content = <<Object(<<Ev("Source", 6, None),
                                  Ev("Source", 2, Some("a.h")),
                                  Ev("Total ExecuteCompiler", 7, None)>>)>>
    /\ outcome.ret[1].file_metrics[1].include_count = 1

\* C16: negative dur values clamp to zero: after parsing, total_time,
\* frontend_time, backend_time and every include_time and instantiation_time
\* of the unit are non-negative
C16_NegativeDurClamped ==
    (AnalyzeReturned /\ Len(LoadedNow) = 1) =>
        /\ ParsedUnit.total_time >= 0
        /\ ParsedUnit.frontend_time >= 0
        /\ ParsedUnit.backend_time >= 0
        /\ \A i \in 1..Len(ParsedUnit.includes) :
               ParsedUnit.includes[i].include_time >= 0
        /\ \A i \in 1..Len(ParsedUnit.templates) :
               ParsedUnit.templates[i].instantiation_time >= 0
        /\ outcome.ret[1].total_compile_time >= 0

\* C17: every unit the parser produces has
\* frontend_time + backend_time <= total_time + 1 us
C17_PhasesWithinTotal ==
    (AnalyzeReturned /\ Len(LoadedNow) = 1) =>
        ParsedUnit.frontend_time + ParsedUnit.backend_time
            <= ParsedUnit.total_time + 1

\* an AnalysisResult with file_count 0, no file_metrics and every count and
\* time field zero
IsZeroResult(r) ==
    /\ r.file_count = 0
    /\ r.file_metrics = <<>>
    /\ r.total_compile_time = 0
    /\ r.include_metrics =
           [total_includes |-> 0, unique_includes |-> 0, max_depth |-> 0,
            total_include_time |-> 0, most_included |-> <<>>,
            slowest_includes |-> <<>>]
    /\ r.template_metrics =
           [total_instantiations |-> 0, unique_templates |-> 0,
            total_template_time |-> 0, most_instantiated |-> <<>>,
            slowest_templates |-> <<>>]
    /\ r.symbol_metrics = SymbolMetricsDefault
    /\ r.dependency_metrics = DependencyMetricsDefault

\* C18 as stated, for the Analyzer: analyze() on an Analyzer without any
\* trace is no error and returns the all-zero result
C18_EmptyAnalyzeReturns ==
    (outcome.op = "analyze" /\ added = <<>>) =>
        /\ outcome.raised = "none"
        /\ IsZeroResult(outcome.ret[1])

\* C18 amended: the aggregator called on no units returns the all-zero
\* result, for which the suggester returns the empty list; analyze() on an
\* Analyzer without any trace raises RuntimeError
C18_EmptyInput ==
    /\ (outcome.op = "from_compilation_units"
            /\ Len(outcome.ret[1].file_metrics) = 0) =>
           /\ IsZeroResult(outcome.ret[1])
           /\ generate_suggestions_python(outcome.ret) = <<>>
    /\ (outcome.op = "analyze" /\ added = <<>>) =>
           outcome.raised = "RuntimeError"

\* C18 witness: the aggregator has returned for the empty list of units
C18_Witness ==
    /\ outcome.op = "from_compilation_units"
    /\ outcome.raised = "none"
    /\ outcome.ret[1].file_count = 0

\* C19: as long as no trace was added, analyze() raises RuntimeError and
\* stores nothing: the Analyzer is as constructed (no result, no
\* suggestions, the files untouched), so get_suggestions() raises as well
C19_AnalyzeWithoutTraces ==
    added = <<>> =>
        /\ outcome.op \in {"analyze", "get_suggestions"} =>
               outcome.raised = "RuntimeError"
        /\ trace_files = <<>> /\ trace_content = <<>>
        /\ analysis_result = None
        /\ suggestions = <<>>
        /\ ~analyzed
        /\ fs = InitialFiles

\* C19 witness: analyze() has just raised RuntimeError on an Analyzer
\* without traces
C19_Witness ==
    /\ added = <<>>
    /\ outcome = Raised("analyze", "RuntimeError")

\* the paths of the add_trace_file calls that returned, in order
FilesAdded ==
    LET IsFile(a) == a.kind = "file"
        files == SelectSeq(added, IsFile)
    IN  [i \in 1..Len(files) |-> files[i].hint]

\* a step in which add_trace_file returns appends one existing path; a step
\* in which it raises, raises FileNotFoundError and leaves the list alone
AddTraceFileStep ==
    outcome'.op = "add_trace_file" =>
        IF outcome'.raised = "none"
        THEN /\ Len(trace_files') = Len(trace_files) + 1
             /\ SubSeq(trace_files', 1, Len(trace_files)) = trace_files
             /\ trace_files'[Len(trace_files')] \in DOMAIN fs
        ELSE /\ outcome'.raised = "FileNotFoundError"
             /\ trace_files' = trace_files
             /\ UNCHANGED <<fs, trace_content, analysis_result, suggestions>>

\* C20: add_trace_file with a path that does not exist raises
\* FileNotFoundError and adds nothing: the list of trace files always holds
\* exactly the paths of the calls that returned, each an existing file
C20_MissingFileNotAdded ==
    /\ [](/\ trace_files = FilesAdded
          /\ \A i \in 1..Len(trace_files) : trace_files[i] \in DOMAIN fs)
    /\ [][AddTraceFileStep]_vars

\* C20 witness: add_trace_file has just raised FileNotFoundError on an
\* Analyzer that already holds a trace file
C20_Witness ==
    /\ outcome = Raised("add_trace_file", "FileNotFoundError")
    /\ trace_files # <<>>

\* the second instance holds the traces of the first, added in the same
\* order, and its last analyze() that returned has parsed the documents
\* these traces have now
SameInput ==
    /\ twin.added = added
    /\ twin.trace_files = trace_files
    /\ twin.trace_content = trace_content
    /\ twin.read = Some(LoadedNow)

\* an analyze() that returns right after an analyze() that returned, on
\* the same instance with the same traces and documents, returns and
\* stores an equal result
RepeatedAnalyzeStep ==
    /\ (twin.runs >= 1 /\ twin.runs' = twin.runs + 1) =>
           twin.analysis_result' = twin.analysis_result
    /\ (AnalyzeReturned /\ outcome'.op = "analyze") =>
           /\ outcome' = outcome
           /\ analysis_result' = analysis_result

InputsKeptStep ==
    /\ outcome'.op = "from_compilation_units" => build_trace' = build_trace
    /\ outcome'.op = "get_suggestions" => analysis_result' = analysis_result
    /\ outcome'.op = "analyze" =>
           UNCHANGED <<fs, trace_files, trace_content>>

\* C22: the aggregator and the suggester never mutate their inputs.  After
\* from_compilation_units returned, the unit list, with every unit's
\* fields, includes and templates, is what it was before the call, so
\* aggregating it again gives the returned result; after get_suggestions
\* returned, the stored AnalysisResult is what it was before the call, so
\* it gives the returned suggestions again
C22_InputsNotMutated ==
    /\ [](outcome.op = "from_compilation_units" =>
              outcome.ret = Some(from_compilation_units(build_trace.units)))
    /\ [](SuggestionsReturned =>
              outcome.ret = Some(generate_suggestions_python(analysis_result)))
    /\ [][InputsKeptStep]_vars

\* C22 witness: the aggregator has returned for three units with includes
\* and templates, next to an Analyzer whose suggester has produced
\* suggestions from a stored result
C22_Witness ==
    /\ outcome.op = "from_compilation_units"
    /\ Len(build_trace.units) = 3
    /\ \A i \in 1..3 : build_trace.units[i].includes # <<>>
    /\ build_trace.units[1].templates # <<>>
    /\ analysis_result # None
    /\ Len(suggestions) = 2

\* the sum of total_time over units[1..i]
SumUnitTimes(units, i) ==
    LET Sum[k \in 0..i] == IF k = 0 THEN 0 ELSE Sum[k - 1] + units[k].total_time
    IN  Sum[i]

\* a step of add_unit appends its unit behind the units already held
AddUnitStep ==
    outcome'.op = "add_unit" =>
        /\ Len(build_trace'.units) = Len(build_trace.units) + 1
        /\ SubSeq(build_trace'.units, 1, Len(build_trace.units))
               = build_trace.units
        /\ build_trace'.units[Len(build_trace'.units)] \in TraceUnits

\* C23: after any sequence of add_unit calls on a BuildTrace that starts
\* empty, total_build_time is the sum of total_time over the units in the
\* trace, and units holds the added units in the order they were added
C23_BuildTraceTotal ==
    /\ [](build_trace.total_build_time
              = SumUnitTimes(build_trace.units, Len(build_trace.units)))
    /\ [][AddUnitStep]_vars

\* C23 witness: three units were added, the first and the last with
\* different non-zero times
C23_Witness ==
    /\ Len(build_trace.units) = 3
    /\ build_trace.units[1].total_time > 0
    /\ build_trace.units[3].total_time > 0
    /\ build_trace.units[1].total_time # build_trace.units[3].total_time
    /\ outcome.op = "add_unit"

\* a step of subtraction gives max(0, a - b), a step of addition a + b
ClampedArithmeticStep ==
    /\ outcome'.op = "Duration.__sub__" =>
           \E other \in DurationOperands :
               /\ duration' = IF duration - other < 0 THEN 0
                               ELSE duration - other
               /\ outcome'.ret = Some(duration')
    /\ outcome'.op = "Duration.__add__" =>
           \E other \in DurationOperands :
               /\ duration' = duration + other
               /\ outcome'.ret = Some(duration')

\* C24: a Duration is non-negative under every sequence of arithmetic
\* operations: subtraction clamps at zero, (a - b) = max(0, a - b), and
\* a + b is the sum
C24_SubtractionClamps ==
    /\ [](duration >= 0)
    /\ [][ClampedArithmeticStep]_vars

\* the file an include is attributed to: included_by for an indirect
\* include, the unit's source file for a direct one
IncluderOf(unit, inc) ==
    IF "included_by" \in DOMAIN inc /\ inc.included_by # None
    THEN inc.included_by[1]
    ELSE unit.source_file

\* the include graph built from the units: edges includer -> included
GraphEdges(units) ==
    UNION {{<<IncluderOf(units[i], units[i].includes[k]),
              units[i].includes[k].header_path>> :
                k \in 1..Len(units[i].includes)} : i \in 1..Len(units)}

GraphNodes(units) ==
    {units[i].source_file : i \in 1..Len(units)}
        \cup {e[1] : e \in GraphEdges(units)}
        \cup {e[2] : e \in GraphEdges(units)}

\* the pairs joined by a path of at least one edge
Reachable(units) ==
    LET nodes == GraphNodes(units)
        Close[n \in 0..Cardinality(nodes)] ==
            IF n = 0 THEN GraphEdges(units)
            ELSE Close[n - 1] \cup
                 {<<a, c>> \in nodes \X nodes :
                     \E b \in nodes : /\ <<a, b>> \in Close[n - 1]
                                       /\ <<b, c>> \in Close[n - 1]}
    IN  Close[Cardinality(nodes)]

\* the strongly connected components of size greater than 1
CyclicComponents(units) ==
    LET reach == Reachable(units)
        Component(n) == {n} \cup {m \in GraphNodes(units) :
                                     <<n, m>> \in reach /\ <<m, n>> \in reach}
    IN  {Component(n) : n \in GraphNodes(units)} \ {{n} : n \in GraphNodes(units)}

\* C25: when the includes of the analysed units form a cycle (a.h includes
\* b.h and b.h includes a.h), circular_dependencies of the result is at
\* least 1: it is the number of strongly connected components of size
\* greater than 1 in the include graph built from the units
C25_CircularDependencies ==
    outcome.op = "from_compilation_units" =>
        outcome.ret[1].dependency_metrics.circular_dependencies
            = Cardinality(CyclicComponents(build_trace.units))

\* the positions of the Source events that carry args.detail
SourcePositions(events) ==
    {i \in 1..Len(events) :
        events[i].name = "Source" /\ events[i].detail # None}

\* the positions of the template instantiation events
TemplatePositions(events) ==
    {i \in 1..Len(events) :
        events[i].name \in {"InstantiateClass", "InstantiateFunction"}}

\* the j-th smallest position of the set
NthPosition(positions, j) ==
    CHOOSE i \in positions : Cardinality({k \in positions : k < i}) = j - 1

\* C26: parsing preserves event order and does not merge: the j-th entry
\* of includes is the j-th Source event that carries args.detail, with its
\* own detail and time, the j-th entry of templates is the j-th
\* InstantiateClass/InstantiateFunction event, and two events with the
\* same detail give two entries
C26_ParseKeepsOrder ==
    (AnalyzeReturned /\ Len(LoadedNow) = 1) =>
        LET src  == SourcePositions(ParsedEvents)
            tmpl == TemplatePositions(ParsedEvents)
        IN  /\ Len(ParsedUnit.includes) = Cardinality(src)
            /\ \A j \in 1..Cardinality(src) :
                   LET event == ParsedEvents[NthPosition(src, j)]
                   IN  /\ ParsedUnit.includes[j].header_path = event.detail[1]
                       /\ ParsedUnit.includes[j].include_time =
                              from_microseconds(event.dur)
            /\ Len(ParsedUnit.templates) = Cardinality(tmpl)
            /\ \A j \in 1..Cardinality(tmpl) :
                   LET event == ParsedEvents[NthPosition(tmpl, j)]
                   IN  /\ ParsedUnit.templates[j].template_name =
                              (IF event.detail = None THEN ""
                               ELSE event.detail[1])
                       /\ ParsedUnit.templates[j].instantiation_time =
                              from_microseconds(event.dur)
            /\ outcome.ret[1].file_metrics[1].include_count
                   = Cardinality(src)
            /\ outcome.ret[1].file_metrics[1].template_instantiation_count
                   = Cardinality(tmpl)

\* C26 witness: analyze() has returned for a trace with two Source events
\* for a.h and two InstantiateClass events for std::vector<int>,
\* interleaved, each pair with the larger time first
C26_Witness ==
    /\ AnalyzeReturned
    /\ trace_content =
           <<Object(<<Ev("Source", 6, Some("a.h")),
                      Ev("InstantiateClass", 7, Some("std::vector<int>")),
                      Ev("Source", 2, Some("a.h")),
                      Ev("InstantiateClass", 3, Some("std::vector<int>"))>>)>>
    /\ Len(ParsedUnit.includes) = 2
    /\ Len(ParsedUnit.templates) = 2

\* the positions of the file_metrics entries over 5000 ms
SlowPositions(file_metrics) ==
    {i \in 1..Len(file_metrics) :
        FloatLess(FloatOfInt(5000), file_metrics[i].compile_time_ms)}

\* a step in which get_suggestions returns on an Analyzer whose last call
\* was a get_suggestions that returned, or whose stored list already has
\* one suggestion per slow entry of the stored result, stores and returns
\* that same list; the stored list is never longer than file_metrics
RepeatedSuggestionsStep ==
    (outcome'.op = "get_suggestions" /\ outcome'.raised = "none") =>
        /\ Len(suggestions') <= Len(analysis_result[1].file_metrics)
        /\ (\/ SuggestionsReturned
            \/ Len(suggestions)
                   = Cardinality(SlowPositions(analysis_result[1].file_metrics)))
              => Len(suggestions') = Len(suggestions)
        /\ SuggestionsReturned => suggestions' = suggestions

\* C27: get_suggestions() replaces rather than accumulates: after a
\* successful analyze() it returns the stored list, which has exactly one
\* suggestion per file_metrics entry over 5000 ms, whatever list was stored
\* before, and calling it again returns the same list and never grows it
C27_SuggestionsReplaced ==
    /\ [](SuggestionsReturned =>
            LET fms  == analysis_result[1].file_metrics
                slow == SlowPositions(fms)
            IN  /\ outcome.ret = Some(suggestions)
                /\ Len(suggestions) = Cardinality(slow)
                /\ \A j \in 1..Len(suggestions) :
                       suggestions[j].file_path
                           = fms[NthPosition(slow, j)].file_path)
    /\ [][RepeatedSuggestionsStep]_vars

\* C27 witness: get_suggestions() has returned two suggestions for a
\* result of three files, one of them not slow, with a file trace first
C27_Witness ==
    /\ SuggestionsReturned
    /\ Len(suggestions) = 2
    /\ Len(analysis_result[1].file_metrics) = 3
    /\ analysis_result[1].file_metrics[1].file_path = "edge.json"

\* a step of add_trace_file, add_trace_content, get_suggestions or export
\* leaves the stored result as it was; a step that changes it is an
\* analyze() that returns, and it stores what it returns
ResultChangesInAnalyzeStep ==
    /\ outcome'.op # "analyze" => analysis_result' = analysis_result
    /\ analysis_result' # analysis_result =>
           /\ outcome'.op = "analyze"
           /\ outcome'.raised = "none"
           /\ outcome'.ret = analysis_result'

\* C28: the stored analysis result changes only in analyze().  The other
\* operations leave it unchanged, so get_suggestions() and export() answer
\* from the result of the last analyze() that returned, also when traces
\* were added since: the result never covers more traces than were added
\* and may cover fewer
C28_ResultChangesOnlyInAnalyze ==
    /\ [][ResultChangesInAnalyzeStep]_vars
    /\ [](SuggestionsReturned =>
            outcome.ret = Some(generate_suggestions_python(analysis_result)))
    /\ []((outcome.op = "export" /\ outcome.raised = "none") =>
            outcome.ret = Some(to_dict(analysis_result[1])))
    /\ [](analysis_result # None =>
            analysis_result[1].file_count <= Len(added))

\* C28 witness: get_suggestions() has returned no suggestion, from the
\* stored result of one file that is not slow, although two slow traces
\* were added since that result was computed
C28_Witness ==
    /\ SuggestionsReturned
    /\ suggestions = <<>>
    /\ analysis_result[1].file_count = 1
    /\ trace_files = <<"edge.json">>
    /\ trace_content = <<DocSlowA, DocSlowB>>

\* the Analyzer holds a trace that is not valid JSON
HoldsBadTrace ==
    /\ trace_files # <<>> \/ trace_content # <<>>
    /\ ParseFails(LoadedNow)

\* the Analyzer holds a trace content that is not valid JSON
HoldsBadContent ==
    \E i \in 1..Len(trace_content) : trace_content[i].json = "malformed"

\* analyze() has just failed on a trace that is not valid JSON
FailedOnBadTrace == outcome = Raised("analyze", "RuntimeError") /\ HoldsBadTrace

\* a step of analyze() on an Analyzer that holds a bad trace raises
\* RuntimeError and changes nothing else
FailedAnalyzeStep ==
    (outcome'.op = "analyze" /\ HoldsBadTrace) =>
        /\ outcome' = Raised("analyze", "RuntimeError")
        /\ UNCHANGED <<fs, trace_files, trace_content, analysis_result,
                       suggestions, added, analyzed>>

\* no step removes a trace: the lists only grow at the end
TracesKeptStep ==
    /\ Len(trace_files') >= Len(trace_files)
    /\ SubSeq(trace_files', 1, Len(trace_files)) = trace_files
    /\ Len(trace_content') >= Len(trace_content)
    /\ SubSeq(trace_content', 1, Len(trace_content)) = trace_content

\* C29 as stated: an analyze() that fails on invalid JSON raises
\* RuntimeError and leaves the analyzer unchanged, and the same failure
\* recurs on every later analyze(): whatever the caller does after the
\* failed call, the Analyzer still holds a trace that is not valid JSON
C29_FailureRecursAlways ==
    /\ [][FailedAnalyzeStep]_vars
    /\ [][FailedOnBadTrace => HoldsBadTrace']_vars

\* C29, amended: an analyze() that fails on invalid JSON raises
\* RuntimeError and leaves the stored result, the suggestions and the
\* trace lists unchanged; no trace is ever removed, so the failure recurs
\* on every later analyze() when the bad trace is a content string, and
\* for a bad trace file as long as the file is not rewritten
C29_FailedAnalyzeChangesNothing ==
    /\ [][FailedAnalyzeStep]_vars
    /\ [][TracesKeptStep]_vars
    /\ []((outcome.op = "analyze" /\ HoldsBadTrace) =>
            outcome = Raised("analyze", "RuntimeError"))
    /\ [][HoldsBadContent => HoldsBadContent']_vars
    /\ [][(HoldsBadTrace /\ fs' = fs) => HoldsBadTrace']_vars

\* C29 witness: analyze() has just raised on a malformed content while the
\* Analyzer keeps the result and the suggestions of an earlier analysis
C29_Witness ==
    /\ FailedOnBadTrace
    /\ HoldsBadContent
    /\ analysis_result # None
    /\ suggestions # <<>>

\* the positions of the template events without args.detail
UnnamedTemplatePositions(events) ==
    {i \in TemplatePositions(events) : events[i].detail = None}

\* the count most_instantiated gives for a name, 0 when it has no entry
InstantiatedCount(most_instantiated, name) ==
    IF \E k \in 1..Len(most_instantiated) : most_instantiated[k][1] = name
    THEN LET k == CHOOSE k \in 1..Len(most_instantiated) :
                      most_instantiated[k][1] = name
         IN  most_instantiated[k][2]
    ELSE 0

\* C30: an InstantiateClass or InstantiateFunction event without
\* args.detail is not dropped: it gives a TemplateInstantiation with the
\* empty string as template_name, is counted in
\* template_instantiation_count and total_instantiations, and is
\* aggregated under the name ""
C30_UnnamedTemplateKept ==
    (outcome.op = "analyze" /\ Len(LoadedNow) = 1) =>
        LET tmpl    == TemplatePositions(ParsedEvents)
            unnamed == UnnamedTemplatePositions(ParsedEvents)
            empty   == {j \in 1..Len(ParsedUnit.templates) :
                           ParsedUnit.templates[j].template_name = ""}
            tm      == outcome.ret[1].template_metrics
        IN  /\ outcome.raised = "none"
            /\ Cardinality(empty) = Cardinality(unnamed)
            /\ outcome.ret[1].file_metrics[1].template_instantiation_count
                   = Cardinality(tmpl)
            /\ tm.total_instantiations = Cardinality(tmpl)
            /\ InstantiatedCount(tm.most_instantiated, "")
                   = Cardinality(unnamed)
            /\ tm.unique_templates =
                   Cardinality({ParsedEvents[i].detail : i \in tmpl})

\* C30 witness: analyze() has returned for a trace with two template
\* events without detail around one with a detail, and a Source event
C30_Witness ==
    /\ AnalyzeReturned
    /\ trace_content =
           <<Object(<<Ev("InstantiateFunction", 1, None),
                      Ev("InstantiateClass", 3, Some("std::vector<int>")),
                      Ev("Source", 2, Some("a.h")),
                      Ev("InstantiateFunction", 1, None)>>)>>
    /\ outcome.ret[1].template_metrics.total_instantiations = 3

=============================================================================
